---- MODULE Spec2Model ----
(***************************************************************************)
(* MetaMedAI: the /research request handler (app.py), the three-stage      *)
(* ResearchRouterChain (literature -> data -> report), the agents' parsing *)
(* of model completions and the PubMed search tool; and, called on their   *)
(* own, ReportAgent.run, the data processing tool and the method           *)
(* classifier.                                                             *)
(*                                                                         *)
(* Text is modelled as a sequence of lexemes (a Python str cut into the    *)
(* pieces the code distinguishes: the code fence, the word json,           *)
(* whitespace, JSON punctuation, numerals and other words).  The Chinese   *)
(* literals of the source are written as ASCII words; the comment at each  *)
(* use names the source line.                                              *)
(***************************************************************************)
EXTENDS Integers, Sequences, FiniteSets, TLC

VARIABLES pc, request, keywords, config, chainConstructed, calls, raised,
          searchOutcome, toolResult, completion, lit_result, data_result,
          report_result, response,
          call, ret, clock, reports

\* the state of a /research request
chainVars == <<pc, request, keywords, config, chainConstructed, calls, raised,
               searchOutcome, toolResult, completion, lit_result, data_result,
               report_result, response>>
\* the state of an operation called on its own: the call and what it
\* returned, the time, and the reports persisted so far
unitVars == <<call, ret, clock, reports>>

vars == <<chainVars, unitVars>>

(***************************************************************************)
(* Lexemes of text.                                                        *)
(***************************************************************************)
\* the three-backtick code fence (a backtick cannot stand in a TLA+ string)
FENCE == "<fence>"
JSONTAG == "json"
SP == " "
NL == "\n"
DQ == "\""
Whitespace == {SP, NL}
Numerals == <<"0", "1", "2", "3", "4", "5", "6", "7", "8", "9">>

Range(s) == {s[i] : i \in 1..Len(s)}

IsNumeral(x) == \E i \in 1..Len(Numerals) : Numerals[i] = x
NumeralValue(x) == (CHOOSE i \in 1..Len(Numerals) : Numerals[i] = x) - 1
\* str(i) for a small non-negative i
NumeralOf(i) == Numerals[i + 1]

(***************************************************************************)
(* Python str operations, on lexeme sequences.                             *)
(***************************************************************************)
\* Whether sub occurs in text as a contiguous piece (Python: sub in text).
Contains(text, sub) ==
    \E i \in 0..(Len(text) - Len(sub)) :
        \A j \in 1..Len(sub) : text[i + j] = sub[j]

\* str.strip()
Strip(text) ==
    LET keep == {i \in 1..Len(text) : text[i] \notin Whitespace}
    IN  IF keep = {} THEN <<>>
        ELSE LET lo == CHOOSE i \in keep : \A j \in keep : i <= j
                 hi == CHOOSE i \in keep : \A j \in keep : j <= i
             IN  SubSeq(text, lo, hi)

\* str.startswith("```")
StartsWithFence(text) == Len(text) > 0 /\ text[1] = FENCE

\* text.split("```")[1]: what lies between the first fence and the next one
\* (or the end of the text).  Only used on text that holds a fence.
SplitFenceSecond(text) ==
    LET fences == {i \in 1..Len(text) : text[i] = FENCE}
        first  == CHOOSE i \in fences : \A j \in fences : i <= j
        later  == {i \in fences : i > first}
        next   == IF later = {} THEN Len(text) + 1
                  ELSE CHOOSE i \in later : \A j \in later : i <= j
    IN  SubSeq(text, first + 1, next - 1)

\* str.replace("json", ""): every occurrence goes, wherever it stands.
ReplaceJson(text) == SelectSeq(text, LAMBDA x : x # JSONTAG)

(***************************************************************************)
(* Python values decoded from / encoded to JSON.  A dict keeps insertion   *)
(* order: ps is the sequence of its items.                                 *)
(***************************************************************************)
JStr(s) == [t |-> "str", s |-> s]
JNum(n) == [t |-> "num", n |-> n]
JNull == [t |-> "null"]
JBool(b) == [t |-> "bool", b |-> b]
JList(xs) == [t |-> "list", xs |-> xs]
JObj(ps) == [t |-> "obj", ps |-> ps]
Item(k, v) == [k |-> k, v |-> v]

IsDict(v) == v.t = "obj"
HasKey(d, k) == \E i \in 1..Len(d.ps) : d.ps[i].k = k
\* d[k] for a key that is present
Get(d, k) == d.ps[CHOOSE i \in 1..Len(d.ps) : d.ps[i].k = k].v
\* d.get(k, default)
GetOr(d, k, default) == IF HasKey(d, k) THEN Get(d, k) ELSE default
\* d[k] = v: a present key keeps its place, a new key goes last
Put(ps, k, v) ==
    IF \E i \in 1..Len(ps) : ps[i].k = k
    THEN [i \in 1..Len(ps) |-> IF ps[i].k = k THEN Item(k, v) ELSE ps[i]]
    ELSE Append(ps, Item(k, v))

(***************************************************************************)
(* json.loads: strict JSON decoding of a lexeme sequence.  A result is     *)
(* [ok, val, pos]: pos is the index after the value read; ok = FALSE is a  *)
(* json.JSONDecodeError.                                                   *)
(***************************************************************************)
DecodeFail(i) == [ok |-> FALSE, val |-> JNull, pos |-> i]
DecodeOk(v, i) == [ok |-> TRUE, val |-> v, pos |-> i]

\* the first index >= i that holds no whitespace (Len(text) + 1 at the end)
SkipWs(text, i) ==
    LET rest == {j \in i..(Len(text) + 1) :
                    j = Len(text) + 1 \/ text[j] \notin Whitespace}
    IN  CHOOSE j \in rest : \A k \in rest : j <= k

\* a string that opens at text[i] = DQ: up to the next DQ; a raw newline
\* inside it is a control character, which strict decoding rejects
DecodeString(text, i) ==
    LET quotes == {j \in (i + 1)..Len(text) : text[j] = DQ}
    IN  IF quotes = {} THEN DecodeFail(i)
        ELSE LET close == CHOOSE j \in quotes : \A k \in quotes : j <= k
                 body  == SubSeq(text, i + 1, close - 1)
             IN  IF NL \in Range(body) THEN DecodeFail(i)
                 ELSE DecodeOk(JStr(body), close + 1)

RECURSIVE DecodeValue(_, _), DecodeElements(_, _, _), DecodeMembers(_, _, _)

\* the value that starts at the first non-whitespace index i
DecodeValueAt(text, i) ==
    IF i > Len(text) THEN DecodeFail(i)
    ELSE IF text[i] = DQ THEN DecodeString(text, i)
    ELSE IF IsNumeral(text[i]) THEN DecodeOk(JNum(NumeralValue(text[i])), i + 1)
    ELSE IF text[i] = "null" THEN DecodeOk(JNull, i + 1)
    ELSE IF text[i] = "true" THEN DecodeOk(JBool(TRUE), i + 1)
    ELSE IF text[i] = "false" THEN DecodeOk(JBool(FALSE), i + 1)
    ELSE IF text[i] = "[" THEN DecodeElements(text, SkipWs(text, i + 1), <<>>)
    ELSE IF text[i] = "{" THEN DecodeMembers(text, SkipWs(text, i + 1), <<>>)
    ELSE DecodeFail(i)

DecodeValue(text, i) == DecodeValueAt(text, SkipWs(text, i))

\* after the element r of a list: "," and more elements, or "]" at index k
AfterElement(text, acc, r, k) ==
    IF ~r.ok THEN r
    ELSE IF k > Len(text) THEN DecodeFail(k)
    ELSE IF text[k] = "," THEN DecodeElements(text, SkipWs(text, k + 1), Append(acc, r.val))
    ELSE IF text[k] = "]" THEN DecodeOk(JList(Append(acc, r.val)), k + 1)
    ELSE DecodeFail(k)

\* what follows the element r: the index after the whitespace behind it
Behind(text, r) == IF r.ok THEN SkipWs(text, r.pos) ELSE r.pos

ElementThen(text, acc, r) == AfterElement(text, acc, r, Behind(text, r))

\* the elements of a list from index i, which follows "[" or ","; only
\* straight after "[" (acc empty) may "]" stand there
DecodeElements(text, i, acc) ==
    IF acc = <<>> /\ i <= Len(text) /\ text[i] = "]" THEN DecodeOk(JList(<<>>), i + 1)
    ELSE ElementThen(text, acc, DecodeValue(text, i))

\* after the member key: r of an object: "," and more members, or "}"
AfterMember(text, acc, key, r, k) ==
    IF ~r.ok THEN r
    ELSE IF k > Len(text) THEN DecodeFail(k)
    ELSE IF text[k] = ","
         THEN DecodeMembers(text, SkipWs(text, k + 1), Put(acc, key.val.s, r.val))
    ELSE IF text[k] = "}" THEN DecodeOk(JObj(Put(acc, key.val.s, r.val)), k + 1)
    ELSE DecodeFail(k)

MemberThen(text, acc, key, r) == AfterMember(text, acc, key, r, Behind(text, r))

\* after the key of a member: ":" at index c, then the value
AfterKey(text, acc, key, c) ==
    IF ~key.ok THEN key
    ELSE IF c > Len(text) \/ text[c] # ":" THEN DecodeFail(c)
    ELSE MemberThen(text, acc, key, DecodeValue(text, c + 1))

KeyThen(text, acc, key) == AfterKey(text, acc, key, Behind(text, key))

\* the members of an object from index i, which follows "{" or ","; only
\* straight after "{" (acc empty) may "}" stand there; a repeated key
\* overwrites
DecodeMembers(text, i, acc) ==
    IF acc = <<>> /\ i <= Len(text) /\ text[i] = "}" THEN DecodeOk(JObj(<<>>), i + 1)
    ELSE IF i > Len(text) \/ text[i] # DQ THEN DecodeFail(i)
    ELSE KeyThen(text, acc, DecodeString(text, i))

\* one value, then nothing but whitespace
WholeText(text, r) ==
    IF ~r.ok THEN r
    ELSE IF SkipWs(text, r.pos) <= Len(text) THEN DecodeFail(r.pos)
    ELSE r

\* json.loads(text)
Loads(text) == WholeText(text, DecodeValue(text, 1))

(***************************************************************************)
(* json.dumps(value, ensure_ascii=False): ", " and ": " separators.        *)
(***************************************************************************)
RECURSIVE Dumps(_), DumpsList(_, _), DumpsItems(_, _)

Dumps(v) ==
    CASE v.t = "str"  -> <<DQ>> \o v.s \o <<DQ>>
      [] v.t = "num"  -> <<NumeralOf(v.n)>>
      [] v.t = "null" -> <<"null">>
      [] v.t = "bool" -> IF v.b THEN <<"true">> ELSE <<"false">>
      [] v.t = "list" -> <<"[">> \o DumpsList(v.xs, 1) \o <<"]">>
      [] v.t = "obj"  -> <<"{">> \o DumpsItems(v.ps, 1) \o <<"}">>

DumpsList(xs, i) ==
    IF i > Len(xs) THEN <<>>
    ELSE (IF i > 1 THEN <<",", SP>> ELSE <<>>) \o Dumps(xs[i]) \o DumpsList(xs, i + 1)

DumpsItems(ps, i) ==
    IF i > Len(ps) THEN <<>>
    ELSE (IF i > 1 THEN <<",", SP>> ELSE <<>>)
         \o <<DQ>> \o ps[i].k \o <<DQ, ":", SP>> \o Dumps(ps[i].v)
         \o DumpsItems(ps, i + 1)

(***************************************************************************)
(* The clean-up every use site applies to text before json.loads: strip,   *)
(* and when the text starts with a fence take the first fenced segment,    *)
(* delete "json" from it and strip again.                                  *)
(***************************************************************************)
Unfence(text) ==
    LET stripped == Strip(text)
    IN  IF StartsWithFence(stripped)
        THEN Strip(ReplaceJson(SplitFenceSecond(stripped)))
        ELSE stripped

(***************************************************************************)
(* Shorthands for Python values the code builds.                           *)
(***************************************************************************)
Str(word) == JStr(<<word>>)
K(word) == <<word>>
Unset == [t |-> "unset"]

\* what a call gives back: a value, or an exception that leaves the callee
Returned(v) == [raised |-> FALSE, value |-> v, exc |-> <<>>]
Raised(etext) == [raised |-> TRUE, value |-> Unset, exc |-> etext]

\* str(e) of the json.JSONDecodeError that json.loads raises
DIAG == "Expecting value: line 1 column 1 (char 0)"

\* what AgentExecutor.invoke / LLMChain.run does: it returns output text, or
\* it raises an exception of class exc whose str() is text
Output(text) == [kind |-> "output", exc |-> "", text |-> text]
Raise(exc, text) == [kind |-> "raise", exc |-> exc, text |-> text]

(***************************************************************************)
(* LiteratureAgent.run (literature_agent.py 110-137)                       *)
(***************************************************************************)
LiteratureErrorEnvelope(message) ==
    JObj(<<Item(K("status"), Str("error")),
           Item(K("message"), JStr(message)),
           Item(K("data"), JList(<<>>))>>)

\* lines 123-131, given what json.loads did with the cleaned output
LiteratureDecoded(out, r) ==
    IF r.ok THEN Returned(r.val)
    ELSE Returned(LiteratureErrorEnvelope(
             <<"result parse failed:", DIAG, ", raw output:">> \o out.text))

LiteratureAgentRun(out) ==
    IF out.kind = "raise"
    THEN IF out.exc = "JSONDecodeError"
         \* the handler of line 126 formats result['output'], and result was
         \* never bound: the handler itself raises UnboundLocalError
         THEN Raised(<<"UnboundLocalError:", "result">>)
         ELSE Returned(LiteratureErrorEnvelope(<<"Agent run failed:">> \o out.text))
    ELSE LiteratureDecoded(out, Loads(Unfence(out.text)))

(***************************************************************************)
(* DataAgent.run (data_agent.py 53-93)                                     *)
(***************************************************************************)
DataErrorEnvelope(message) ==
    JObj(<<Item(K("status"), Str("error")),
           Item(K("message"), JStr(message)),
           Item(K("statistic"), JObj(<<>>)),
           Item(K("plot_paths"), JList(<<>>))>>)

\* lines 57-65: the input as the prompt's string.  "ok", "decode" (json.loads
\* of a str input failed) or "other" (the input has no strip())
DataAgentInput(papers_data) ==
    IF IsDict(papers_data) THEN "ok"
    ELSE IF papers_data.t = "str"
         THEN IF Loads(Unfence(papers_data.s)).ok THEN "ok" ELSE "decode"
    ELSE "other"

\* lines 76-86, given what json.loads did with the cleaned output
DataDecoded(r) ==
    IF r.ok THEN Returned(r.val)
    ELSE Returned(DataErrorEnvelope(<<"input data format error (not valid JSON):", DIAG>>))

DataAgentInvoke(input, out) ==
    IF input = "decode"
    THEN Returned(DataErrorEnvelope(<<"input data format error (not valid JSON):", DIAG>>))
    ELSE IF input = "other"
    THEN Returned(DataErrorEnvelope(<<"data Agent run failed:", "AttributeError:", "strip">>))
    ELSE IF out.kind = "raise"
    THEN IF out.exc = "JSONDecodeError"
         THEN Returned(DataErrorEnvelope(
                  <<"input data format error (not valid JSON):">> \o out.text))
         ELSE Returned(DataErrorEnvelope(<<"data Agent run failed:">> \o out.text))
    ELSE DataDecoded(Loads(Unfence(out.text)))

DataAgentRun(papers_data, out) == DataAgentInvoke(DataAgentInput(papers_data), out)

(***************************************************************************)
(* ReportAgent (report_agent.py)                                           *)
(***************************************************************************)
\* _parse_input_data (66-78): a dict as it is; a str decoded, {} when the
\* decoding fails; anything else has no strip() and the AttributeError is
\* not among the exceptions caught here
InputDecoded(r) == IF r.ok THEN Returned(r.val) ELSE Returned(JObj(<<>>))

ParseInputData(data) ==
    IF IsDict(data) THEN Returned(data)
    ELSE IF data.t = "str" THEN InputDecoded(Loads(Unfence(data.s)))
    ELSE Raised(<<"AttributeError:", "strip">>)

\* len(x) is defined for str, list and dict
HasLen(v) == v.t \in {"str", "list", "obj"}
PyLen(v) == CASE v.t = "str" -> Len(v.s) [] v.t = "list" -> Len(v.xs) [] v.t = "obj" -> Len(v.ps)

\* keywords.replace(" ", "_").replace("/", "_").replace("\\", "_")[:20]  (95)
SafeKeywordLen == 20
SafeKeywords(kw) ==
    LET replaced == [i \in 1..Len(kw) |->
                        IF kw[i] \in {SP, "/", "\\"} THEN "_" ELSE kw[i]]
    IN  SubSeq(replaced, 1, IF Len(replaced) < SafeKeywordLen
                            THEN Len(replaced) ELSE SafeKeywordLen)

\* lines 97-98, with save_path = "./reports" (app.py 94)
ReportPath(kw, timestamp) ==
    <<"./reports", "/", "research_report_">> \o SafeKeywords(kw)
        \o <<"_", NumeralOf(timestamp), ".md">>

ReportErrorEnvelope(etext) ==
    JObj(<<Item(K("status"), Str("error")),
           Item(K("message"), JStr(<<"report generation failed:">> \o etext)),
           Item(K("report_content"), JStr(<<>>)),
           Item(K("report_path"), JStr(<<>>)),
           Item(K("metadata"), JObj(<<>>))>>)

\* lines 109-114: data_data.get("statistic", {}).get("total_papers", 0) and
\* len(data_data.get("plot_paths", [])) need dicts and a sized value
ReportMetadata(kw, timestamp, data_data) ==
    IF ~IsDict(data_data) THEN Raised(<<"AttributeError:", "get">>)
    ELSE LET statistic  == GetOr(data_data, K("statistic"), JObj(<<>>))
             plot_paths == GetOr(data_data, K("plot_paths"), JList(<<>>))
         IN  IF ~IsDict(statistic) THEN Raised(<<"AttributeError:", "get">>)
             ELSE IF ~HasLen(plot_paths) THEN Raised(<<"TypeError:", "len">>)
             ELSE Returned(JObj(<<
                      Item(K("keywords"), JStr(kw)),
                      Item(K("generate_time"), Str(NumeralOf(timestamp))),
                      Item(K("total_papers"), GetOr(statistic, K("total_papers"), JNum(0))),
                      Item(K("plot_count"), JNum(PyLen(plot_paths)))>>))

\* lines 104-115, given the metadata
ReportSuccess(out, path, metadata) ==
    IF metadata.raised THEN Returned(ReportErrorEnvelope(metadata.exc))
    ELSE Returned(JObj(<<
             Item(K("status"), Str("success")),
             Item(K("message"), JStr(<<"report generated, saved to:">> \o path)),
             Item(K("report_content"), JStr(out.text)),
             Item(K("report_path"), JStr(path)),
             Item(K("metadata"), metadata.value)>>))

\* lines 87-115, given the parsed inputs
ReportGenerate(kw, lit_data, data_data, out, timestamp, writeOk) ==
    IF lit_data.raised THEN Returned(ReportErrorEnvelope(lit_data.exc))
    ELSE IF data_data.raised THEN Returned(ReportErrorEnvelope(data_data.exc))
    ELSE IF out.kind = "raise" THEN Returned(ReportErrorEnvelope(out.text))
    ELSE IF ~writeOk
    THEN Returned(ReportErrorEnvelope(<<"OSError:">> \o ReportPath(kw, timestamp)))
    ELSE ReportSuccess(out, ReportPath(kw, timestamp),
                       ReportMetadata(kw, timestamp, data_data.value))

\* run (80-125).  out is what self.chain.run does, timestamp what
\* datetime.now() gives, writeOk whether open()/write() succeed.
ReportAgentRun(kw, literature_data, data_process_data, out, timestamp, writeOk) ==
    ReportGenerate(kw, ParseInputData(literature_data), ParseInputData(data_process_data),
                   out, timestamp, writeOk)

(***************************************************************************)
(* PubMedSearchTool._run (pubmed_tool.py 80-154).  outcome is what the     *)
(* Entrez search and fetch do: they give articles, or something raises.    *)
(***************************************************************************)
\* RESEARCH_METHOD_TYPES (9-11): cross-sectional, cohort, case report, RCT,
\* case-control, review, other
RESEARCH_METHOD_TYPES ==
    {"cross-sectional", "cohort", "case report", "RCT", "case-control", "review", "other"}

PlaceholderCount == 10

\* the record of lines 144-151 for index i of range(10)
PlaceholderPaper(i) ==
    JObj(<<Item(K("title"), JStr(<<"mock paper", NumeralOf(i)>>)),
           Item(K("publish_date"), Str("2024-01-01")),
           Item(K("journal_name"), Str("mock journal")),
           Item(K("methods_original"),
                JStr(<<"randomized controlled trial", "(", "RCT", ")", "100 patients">>)),
           Item(K("conclusion"), Str("mock conclusion: the treatment works")),
           Item(K("authors"), JList(<<Str("Author A")>>))>>)

PlaceholderData == JList([i \in 1..PlaceholderCount |-> PlaceholderPaper(i - 1)])

\* A variant the code does not have: a placeholder of max_papers records
\* instead of the ten of range(10).
PubMedRunScaled(kw, max_papers, outcome) ==
    IF outcome.kind = "raise"
    THEN JObj(<<Item(K("status"), Str("error")),
                Item(K("message"),
                     JStr(<<"PubMed search failed:">> \o outcome.text \o <<", using mock data">>)),
                Item(K("data"), JList([i \in 1..max_papers |-> PlaceholderPaper(i - 1)]))>>)
    ELSE JObj(<<Item(K("status"), Str("success")),
                Item(K("message"),
                     JStr(<<"found", NumeralOf(Len(outcome.papers)), "papers">>)),
                Item(K("data"), JList(outcome.papers))>>)

\* lines 80-154
PubMedRun(kw, max_papers, outcome) ==
    IF outcome.kind = "raise"
    THEN JObj(<<Item(K("status"), Str("error")),
                Item(K("message"),
                     JStr(<<"PubMed search failed:">> \o outcome.text \o <<", using mock data">>)),
                Item(K("data"), PlaceholderData)>>)
    ELSE JObj(<<Item(K("status"), Str("success")),
                Item(K("message"),
                     JStr(<<"found", NumeralOf(Len(outcome.papers)), "papers">>)),
                Item(K("data"), JList(outcome.papers))>>)

(***************************************************************************)
(* ResearchRouterChain.run (router_chain.py 17-85), cut at the three       *)
(* blocking stage calls.  Each piece gives the PipelineResult the run      *)
(* returns, or Unset when the run goes on to the next stage.               *)
(***************************************************************************)
\* the handler of lines 79-85
FullChainFailure(etext) ==
    JObj(<<Item(K("chain_status"), Str("failed")),
           Item(K("stage"), Str("full_chain")),
           Item(K("message"), JStr(<<"Agent chain failed:">> \o etext)),
           Item(K("results"), JObj(<<>>))>>)

\* lines 22-29, given what literature_agent.run did
AfterLiterature(r) ==
    IF r.raised THEN FullChainFailure(r.exc)
    ELSE IF ~IsDict(r.value) THEN FullChainFailure(<<"TypeError:", "status">>)
    ELSE IF ~HasKey(r.value, K("status")) THEN FullChainFailure(<<"KeyError:", "status">>)
    ELSE IF Get(r.value, K("status")) \notin {Str("success"), Str("warning")}
         THEN IF ~HasKey(r.value, K("message"))
              THEN FullChainFailure(<<"KeyError:", "message">>)
              ELSE JObj(<<Item(K("chain_status"), Str("failed")),
                          Item(K("stage"), Str("literature_agent")),
                          Item(K("message"), Get(r.value, K("message"))),
                          Item(K("results"), JObj(<<>>))>>)
    ELSE Unset

\* lines 33-43, given what data_agent.run did
AfterData(lit, r) ==
    IF r.raised THEN FullChainFailure(r.exc)
    ELSE IF ~IsDict(r.value) THEN FullChainFailure(<<"TypeError:", "status">>)
    ELSE IF ~HasKey(r.value, K("status")) THEN FullChainFailure(<<"KeyError:", "status">>)
    ELSE IF Get(r.value, K("status")) # Str("success")
         THEN IF ~HasKey(r.value, K("message"))
              THEN FullChainFailure(<<"KeyError:", "message">>)
              ELSE JObj(<<Item(K("chain_status"), Str("failed")),
                          Item(K("stage"), Str("data_agent")),
                          Item(K("message"), Get(r.value, K("message"))),
                          Item(K("results"),
                               JObj(<<Item(K("literature_result"), lit),
                                      Item(K("data_result"), r.value)>>))>>)
    ELSE Unset

\* A variant the code does not have: a maximum that an equal later value
\* replaces, so that the last of several maxima wins.
RECURSIVE MaxByCountLast(_, _, _)
MaxByCountLast(ps, i, best) ==
    IF i > Len(ps) THEN ps[best].k
    ELSE MaxByCountLast(ps, i + 1, IF ps[i].v.n >= ps[best].v.n THEN i ELSE best)

\* max(d, key=lambda k: d[k]) over the items of a non-empty dict whose values
\* are numbers: the running maximum is replaced only by a greater value
RECURSIVE MaxByCount(_, _, _)
MaxByCount(ps, i, best) ==
    IF i > Len(ps) THEN ps[best].k
    ELSE MaxByCount(ps, i + 1, IF ps[i].v.n > ps[best].v.n THEN i ELSE best)

\* lines 66-70: max(statistic.get("methods_classified_distribution", {}),
\*                  key=..., default="unknown")
MainResearchMethod(statistic) ==
    LET dist == GetOr(statistic, K("methods_classified_distribution"), JObj(<<>>))
    IN  IF ~HasLen(dist) THEN Raised(<<"TypeError:", "not iterable">>)
        ELSE IF PyLen(dist) = 0 THEN Returned(Str("unknown"))
        ELSE IF ~IsDict(dist) THEN Raised(<<"TypeError:", "indices">>)
        ELSE IF Len(dist.ps) = 1 THEN Returned(JStr(dist.ps[1].k))
        ELSE IF \E i \in 1..Len(dist.ps) : dist.ps[i].v.t # "num"
             THEN Raised(<<"TypeError:", "not comparable">>)
        ELSE Returned(JStr(MaxByCount(dist.ps, 2, 1)))

\* lines 54-77, given the summary's main_research_method
Assemble(kw, lit, data, report, statistic, main) ==
    IF main.raised THEN FullChainFailure(main.exc)
    ELSE IF ~HasKey(data, K("plot_paths"))
         THEN FullChainFailure(<<"KeyError:", "plot_paths">>)
    ELSE IF ~HasLen(Get(data, K("plot_paths")))
         THEN FullChainFailure(<<"TypeError:", "len">>)
    ELSE JObj(<<
        Item(K("chain_status"),
             IF Get(report, K("status")) = Str("success")
             THEN Str("success") ELSE Str("failed")),
        Item(K("stage"),
             IF Get(report, K("status")) # Str("success")
             THEN Str("report_agent") ELSE Str("completed")),
        Item(K("message"), Str("full Agent chain finished, report generated")),
        Item(K("results"),
             JObj(<<Item(K("literature_result"), lit),
                    Item(K("data_result"), data),
                    Item(K("report_result"), report)>>)),
        Item(K("summary"),
             JObj(<<Item(K("keywords"), JStr(kw)),
                    Item(K("total_papers"), GetOr(statistic, K("total_papers"), JNum(0))),
                    Item(K("main_research_method"), main.value),
                    Item(K("report_path"), Get(report, K("report_path"))),
                    Item(K("plot_paths"), Get(data, K("plot_paths")))>>))>>)

\* lines 54-77, given the three envelopes (report_agent.run always returns one)
FinalResult(kw, lit, data, report) ==
    IF ~HasKey(data, K("statistic")) THEN FullChainFailure(<<"KeyError:", "statistic">>)
    ELSE IF ~IsDict(Get(data, K("statistic")))
         THEN FullChainFailure(<<"AttributeError:", "get">>)
    ELSE Assemble(kw, lit, data, report, Get(data, K("statistic")),
                  MainResearchMethod(Get(data, K("statistic"))))

(***************************************************************************)
(* research() of app.py (15-114), up to the call of chain.run.             *)
(***************************************************************************)
\* Python truthiness of a decoded JSON value
Truthy(v) ==
    CASE v.t = "str"  -> Len(v.s) > 0
      [] v.t = "num"  -> v.n # 0
      [] v.t = "bool" -> v.b
      [] v.t = "list" -> Len(v.xs) > 0
      [] v.t = "obj"  -> Len(v.ps) > 0
      [] OTHER        -> FALSE

\* a bool is an int in Python: True is 1, False is 0
IsInt(v) == v.t \in {"num", "bool"}
IntOf(v) == IF v.t = "bool" THEN (IF v.b THEN 1 ELSE 0) ELSE v.n

\* "@" not in email, for a truthy email: "ok", "missing" or "TypeError"
AtSignIn(email) ==
    CASE email.t = "str"  -> IF "@" \in Range(email.s) THEN "ok" ELSE "missing"
      [] email.t = "list" -> IF Str("@") \in Range(email.xs) THEN "ok" ELSE "missing"
      [] email.t = "obj"  -> IF HasKey(email, K("@")) THEN "ok" ELSE "missing"
      [] OTHER            -> "TypeError"

AppFailure(stage, message) ==
    JObj(<<Item(K("chain_status"), Str("failed")),
           Item(K("stage"), Str(stage)),
           Item(K("message"), JStr(message))>>)

\* the handler of lines 108-114
ServerFailure(etext) == AppFailure("server", <<"server processing failed:">> \o etext)

\* the default of agent_config.get("max_papers", 10)  (60)
DefaultMaxPapers == 10

\* lines 76-98
BuildConfig(llm_config, max_papers, email) ==
    JObj(<<Item(K("llm"),
                JObj(<<Item(K("type"), Str("tongyi")),
                       Item(K("tongyi"),
                            JObj(<<Item(K("model_name"), Get(llm_config, K("model_name"))),
                                   Item(K("api_key"), Get(llm_config, K("api_key"))),
                                   Item(K("base_url"), Get(llm_config, K("base_url")))>>))>>)),
           Item(K("agent"),
                JObj(<<Item(K("literature"), JObj(<<Item(K("max_papers"), max_papers)>>)),
                       Item(K("data"), JObj(<<Item(K("plot_format"), Str("png")),
                                              Item(K("save_path"), Str("./plots"))>>)),
                       Item(K("report"), JObj(<<Item(K("save_path"), Str("./reports"))>>))>>)),
           Item(K("entrez_email"), email)>>)

\* Lines 17-98 on the request body that get_json() gives (body.t = "invalid":
\* get_json() raises).  The result is the response sent without running a
\* chain, or resp = Unset with the keywords and the config for the chain.
Answer(resp) == [resp |-> resp, kw |-> <<>>, config |-> Unset]

Validate(body) ==
    IF body.t = "invalid" THEN Answer(ServerFailure(<<"BadRequest">>))
    ELSE IF ~Truthy(body)
         THEN Answer(AppFailure("request", <<"request parameters are empty">>))
    ELSE IF ~IsDict(body) THEN Answer(ServerFailure(<<"AttributeError:", "get">>))
    ELSE LET kwraw         == GetOr(body, K("keywords"), JStr(<<>>))
             llm_config    == GetOr(body, K("llm_config"), JObj(<<>>))
             agent_config  == GetOr(body, K("agent_config"), JObj(<<>>))
             pubmed_config == GetOr(body, K("pubmed_config"), JObj(<<>>))
         IN  IF kwraw.t # "str" THEN Answer(ServerFailure(<<"AttributeError:", "strip">>))
             ELSE IF Strip(kwraw.s) = <<>>
                  THEN Answer(AppFailure("params", <<"keywords must not be empty">>))
             ELSE IF ~IsDict(llm_config) THEN Answer(ServerFailure(<<"AttributeError:", "get">>))
             ELSE IF ~Truthy(GetOr(llm_config, K("api_key"), JNull))
                  THEN Answer(AppFailure("params", <<"LLM API Key must not be empty">>))
             ELSE IF ~Truthy(GetOr(llm_config, K("base_url"), JNull))
                  THEN Answer(AppFailure("params", <<"LLM Base URL must not be empty">>))
             ELSE IF ~Truthy(GetOr(llm_config, K("model_name"), JNull))
                  THEN Answer(AppFailure("params", <<"model name must not be empty">>))
             ELSE IF ~IsDict(agent_config)
                  THEN Answer(ServerFailure(<<"AttributeError:", "get">>))
             ELSE IF LET max_papers == GetOr(agent_config, K("max_papers"),
                                             JNum(DefaultMaxPapers))
                     IN  ~IsInt(max_papers) \/ IntOf(max_papers) < 1
                  THEN Answer(AppFailure("params", <<"max papers must be an integer above 0">>))
             ELSE IF ~IsDict(pubmed_config)
                  THEN Answer(ServerFailure(<<"AttributeError:", "get">>))
             ELSE IF ~Truthy(GetOr(pubmed_config, K("email"), JNull))
                  THEN Answer(AppFailure("params", <<"enter a valid PubMed email">>))
             ELSE IF AtSignIn(Get(pubmed_config, K("email"))) = "TypeError"
                  THEN Answer(ServerFailure(<<"TypeError:", "not iterable">>))
             ELSE IF AtSignIn(Get(pubmed_config, K("email"))) = "missing"
                  THEN Answer(AppFailure("params", <<"enter a valid PubMed email">>))
             \* line 87 reads agent_config["max_papers"] without the default
             ELSE IF ~HasKey(agent_config, K("max_papers"))
                  THEN Answer(ServerFailure(<<"KeyError:", "max_papers">>))
             ELSE [resp   |-> Unset,
                   kw     |-> Strip(kwraw.s),
                   config |-> BuildConfig(llm_config, Get(agent_config, K("max_papers")),
                                          Get(pubmed_config, K("email")))]

(***************************************************************************)
(* LiteratureAgent._classify_research_method (literature_agent.py 46-60).  *)
(* Here a text is the sequence of its characters; a Chinese character is   *)
(* written as its pinyin between angle brackets.                           *)
(***************************************************************************)
UpperCase == <<"A", "B", "C", "D", "E", "F", "G", "H", "I", "J", "K", "L", "M",
               "N", "O", "P", "Q", "R", "S", "T", "U", "V", "W", "X", "Y", "Z">>
LowerCase == <<"a", "b", "c", "d", "e", "f", "g", "h", "i", "j", "k", "l", "m",
               "n", "o", "p", "q", "r", "s", "t", "u", "v", "w", "x", "y", "z">>
\* str.lower(), character by character
LowerChar(ch) ==
    IF \E i \in 1..Len(UpperCase) : UpperCase[i] = ch
    THEN LowerCase[CHOOSE i \in 1..Len(UpperCase) : UpperCase[i] = ch]
    ELSE ch
Lower(text) == [i \in 1..Len(text) |-> LowerChar(text[i])]

\* the keyword lists of lines 49-57
RctKeywords ==
    << <<"r", "c", "t">>,
       <<"r", "a", "n", "d", "o", "m", "i", "z", "e", "d", " ",
         "c", "o", "n", "t", "r", "o", "l", "l", "e", "d", " ", "t", "r", "i", "a", "l">>,
       <<"<sui>", "<ji>", "<dui:pair>", "<zhao>", "<shi>", "<yan>">> >>
CohortKeywords ==
    << <<"c", "o", "h", "o", "r", "t">>,
       <<"<dui:team>", "<lie>">>,
       <<"<qian>", "<zhan>", "<xing>">>,
       <<"<hui>", "<gu>", "<xing>", "<dui:team>", "<lie>">> >>
CaseControlKeywords ==
    << <<"c", "a", "s", "e", "-", "c", "o", "n", "t", "r", "o", "l">>,
       <<"<bing>", "<li>", "<dui:pair>", "<zhao>">> >>
CrossSectionalKeywords ==
    << <<"c", "r", "o", "s", "s", "-", "s", "e", "c", "t", "i", "o", "n", "a", "l">>,
       <<"<heng>", "<duan>", "<mian>">>,
       <<"<xian>", "<kuang>", "<diao>", "<cha>">> >>
CaseReportKeywords ==
    << <<"c", "a", "s", "e", " ", "r", "e", "p", "o", "r", "t">>,
       <<"<bing>", "<li>", "<bao>", "<gao>">>,
       <<"<ge>", "<an>", "<bao>", "<gao>">> >>

\* any(keyword in method_text_lower for keyword in keywords)
AnyKeywordIn(keywords_list, text) ==
    \E i \in 1..Len(keywords_list) : Contains(text, keywords_list[i])

\* A variant the code does not have: the cohort keywords are looked for
\* before the RCT keywords.
ClassifyCohortFirst(method_text) ==
    IF method_text.t # "str" THEN Raised(<<"AttributeError:", "lower">>)
    ELSE IF AnyKeywordIn(CohortKeywords, Lower(method_text.s)) THEN Returned("cohort")
    ELSE IF AnyKeywordIn(RctKeywords, Lower(method_text.s)) THEN Returned("RCT")
    ELSE IF AnyKeywordIn(CaseControlKeywords, Lower(method_text.s))
         THEN Returned("case-control")
    ELSE IF AnyKeywordIn(CrossSectionalKeywords, Lower(method_text.s))
         THEN Returned("cross-sectional")
    ELSE IF AnyKeywordIn(CaseReportKeywords, Lower(method_text.s))
         THEN Returned("case report")
    ELSE Returned("other")

\* lines 46-60; a method_text that is no str has no lower()
ClassifyResearchMethod(method_text) ==
    IF method_text.t # "str" THEN Raised(<<"AttributeError:", "lower">>)
    ELSE IF AnyKeywordIn(RctKeywords, Lower(method_text.s)) THEN Returned("RCT")
    ELSE IF AnyKeywordIn(CohortKeywords, Lower(method_text.s)) THEN Returned("cohort")
    ELSE IF AnyKeywordIn(CaseControlKeywords, Lower(method_text.s))
         THEN Returned("case-control")
    ELSE IF AnyKeywordIn(CrossSectionalKeywords, Lower(method_text.s))
         THEN Returned("cross-sectional")
    ELSE IF AnyKeywordIn(CaseReportKeywords, Lower(method_text.s))
         THEN Returned("case report")
    ELSE Returned("other")

(***************************************************************************)
(* DataProcessTool._parse_publish_year (data_process_tool.py 43-56).  A    *)
(* date text is the sequence of its characters, the sentinel for "unknown" *)
(* being one piece.                                                        *)
(***************************************************************************)
UnknownYear == Str("unknown")

\* date_str.split("-")[0]
RECURSIVE FirstSegment(_)
FirstSegment(text) ==
    IF text = <<>> \/ Head(text) = "-" THEN <<>>
    ELSE <<Head(text)>> \o FirstSegment(Tail(text))

\* date_str.isdigit()
IsDigit(text) == Len(text) > 0 /\ \A i \in 1..Len(text) : IsNumeral(text[i])

\* A variant the code does not have: any run of digits is taken for a year.
ParsePublishYearAnyLength(date_str) ==
    IF ~Truthy(date_str) \/ date_str = UnknownYear THEN UnknownYear
    ELSE IF date_str.t # "str" THEN UnknownYear
    ELSE IF "-" \in Range(date_str.s) THEN JStr(FirstSegment(date_str.s))
    ELSE IF IsDigit(date_str.s) THEN date_str
    ELSE UnknownYear

\* lines 43-56.  For a truthy value that is no str, the test "-" in date_str
\* or the method call after it raises inside the try, and the bare except
\* answers with the sentinel.
ParsePublishYear(date_str) ==
    IF ~Truthy(date_str) \/ date_str = UnknownYear THEN UnknownYear
    ELSE IF date_str.t # "str" THEN UnknownYear
    ELSE IF "-" \in Range(date_str.s) THEN JStr(FirstSegment(date_str.s))
    ELSE IF IsDigit(date_str.s) /\ Len(date_str.s) = 4 THEN date_str
    ELSE UnknownYear

(***************************************************************************)
(* DataProcessTool._run (data_process_tool.py 58-154).  The DataFrame is   *)
(* the list of records it is built from: it has a column for every key     *)
(* that some record has, and NaN (here JNull) where a record lacks the key. *)
(***************************************************************************)
HasColumn(papers_data, key) ==
    \E i \in 1..Len(papers_data) : HasKey(papers_data[i], key)
Cell(paper, key) == IF HasKey(paper, key) THEN Get(paper, key) ELSE JNull

\* the fill values of lines 64-72
FillValues ==
    <<Item(K("title"), Str("unknown")),
      Item(K("publish_date"), Str("unknown")),
      Item(K("journal_name"), Str("unknown")),
      Item(K("methods_original"), Str("unknown")),
      Item(K("methods_classified"), Str("other")),
      Item(K("conclusion"), Str("unknown")),
      Item(K("authors"), JList(<<>>))>>

\* df.fillna(dict) goes through the dict: a column the frame lacks is
\* skipped, a column it has is filled by Series.fillna(value), which raises
\* TypeError for a value that is a list
FillNaRaises(papers_data) ==
    \E i \in 1..Len(FillValues) :
        FillValues[i].v.t = "list" /\ HasColumn(papers_data, FillValues[i].k)
FillOf(key) ==
    IF \E i \in 1..Len(FillValues) : FillValues[i].k = key
    THEN FillValues[CHOOSE i \in 1..Len(FillValues) : FillValues[i].k = key].v
    ELSE JNull
Filled(paper, key) ==
    IF Cell(paper, key) = JNull THEN FillOf(key) ELSE Cell(paper, key)
\* the column key of the filled frame
Column(papers_data, key) ==
    [i \in 1..Len(papers_data) |-> Filled(papers_data[i], key)]

\* lines 75-76: the derived columns
PublishYears(papers_data) ==
    [i \in 1..Len(papers_data) |->
        ParsePublishYear(Filled(papers_data[i], K("publish_date")))]
AuthorCount(x) == IF x.t = "list" THEN Len(x.xs) ELSE 0
AuthorCounts(papers_data) ==
    [i \in 1..Len(papers_data) |-> AuthorCount(Filled(papers_data[i], K("authors")))]

\* Series.value_counts(): the count of every value that is not NaN, the
\* greatest count first, equal counts in the order of first appearance
Bump(counts, v) ==
    IF \E i \in 1..Len(counts) : counts[i].k = v
    THEN [i \in 1..Len(counts) |->
             IF counts[i].k = v THEN [counts[i] EXCEPT !.n = @ + 1] ELSE counts[i]]
    ELSE Append(counts, [k |-> v, n |-> 1])
RECURSIVE Tally(_, _)
Tally(values, counts) ==
    IF values = <<>> THEN counts
    ELSE Tally(Tail(values),
               IF Head(values) = JNull THEN counts ELSE Bump(counts, Head(values)))
FirstGreatest(counts) ==
    CHOOSE i \in 1..Len(counts) :
        /\ \A j \in 1..Len(counts) : counts[j].n <= counts[i].n
        /\ \A j \in 1..(i - 1) : counts[j].n < counts[i].n
Without(counts, i) == SubSeq(counts, 1, i - 1) \o SubSeq(counts, i + 1, Len(counts))
RECURSIVE Descending(_)
Descending(counts) ==
    IF counts = <<>> THEN <<>>
    ELSE <<counts[FirstGreatest(counts)]>>
             \o Descending(Without(counts, FirstGreatest(counts)))
ValueCounts(values) == Descending(Tally(values, <<>>))
\* .head(10) (86)
TopJournals == 10
HeadOf(counts, n) == SubSeq(counts, 1, IF Len(counts) < n THEN Len(counts) ELSE n)
\* .to_dict(): the values are the keys
ToDict(counts) == JObj([i \in 1..Len(counts) |-> Item(counts[i].k.s, JNum(counts[i].n))])

RECURSIVE SumOf(_)
SumOf(numbers) == IF numbers = <<>> THEN 0 ELSE Head(numbers) + SumOf(Tail(numbers))
MaxOf(numbers) == CHOOSE x \in Range(numbers) : \A y \in Range(numbers) : y <= x
MinOf(numbers) == CHOOSE x \in Range(numbers) : \A y \in Range(numbers) : x <= y
\* round(np.mean(...), 2), in hundredths
MeanHundredths(numbers) == (200 * SumOf(numbers) + Len(numbers)) \div (2 * Len(numbers))

\* lines 88-92 (NaN for an empty frame)
AuthorCountStat(numbers) ==
    IF numbers = <<>> THEN JObj(<<Item(K("avg"), JNull), Item(K("max"), JNull),
                                  Item(K("min"), JNull)>>)
    ELSE JObj(<<Item(K("avg"), [t |-> "float", hundredths |-> MeanHundredths(numbers)]),
                Item(K("max"), JNum(MaxOf(numbers))),
                Item(K("min"), JNum(MinOf(numbers)))>>)

\* lines 79-93
StatResult(papers_data) ==
    JObj(<<Item(K("total_papers"), JNum(Len(papers_data))),
           Item(K("methods_classified_distribution"),
                ToDict(ValueCounts(Column(papers_data, K("methods_classified"))))),
           Item(K("publish_year_distribution"),
                ToDict(ValueCounts(PublishYears(papers_data)))),
           Item(K("journal_distribution"),
                ToDict(HeadOf(ValueCounts(Column(papers_data, K("journal_name"))),
                              TopJournals))),
           Item(K("author_count_stat"), AuthorCountStat(AuthorCounts(papers_data)))>>)

\* lines 96-139, with save_path "./plots" and plot_format "png" (app.py 90-91):
\* a chart is drawn and saved unless its series is empty
PlotPath(name) == JStr(<<"./plots", "/", name, ".", "png">>)
HasValues(values) == \E i \in 1..Len(values) : values[i] # JNull
PlotPaths(papers_data, analysis_type) ==
    IF analysis_type \notin {"plot", "all"} THEN <<>>
    ELSE (IF HasValues(Column(papers_data, K("methods_classified")))
          THEN <<PlotPath("methods_classified_distribution")>> ELSE <<>>)
         \o (IF HasValues(PublishYears(papers_data))
             THEN <<PlotPath("publish_year_distribution")>> ELSE <<>>)
         \o (IF Len(papers_data) > 0
             THEN <<PlotPath("author_count_distribution")>> ELSE <<>>)

\* lines 148-154
DataProcessError(etext) ==
    JObj(<<Item(K("status"), Str("error")),
           Item(K("message"), JStr(<<"data processing failed:">> \o etext)),
           Item(K("statistic"), JObj(<<>>)),
           Item(K("plot_paths"), JList(<<>>))>>)

\* lines 141-146
DataProcessSuccess(papers_data, analysis_type) ==
    JObj(<<Item(K("status"), Str("success")),
           Item(K("message"),
                JStr(<<"data processed:", NumeralOf(Len(papers_data)), "papers,",
                       NumeralOf(Len(PlotPaths(papers_data, analysis_type))), "charts">>)),
           Item(K("statistic"), StatResult(papers_data)),
           Item(K("plot_paths"), JList(PlotPaths(papers_data, analysis_type)))>>)

\* _run (58-154).  Line 64 raises when the frame has a column authors; a
\* column read by df[...] in lines 75-86 that the frame lacks is a KeyError.
DataProcessRun(papers_data, analysis_type) ==
    IF FillNaRaises(papers_data)
    THEN DataProcessError(<<"\"value\" parameter must be a scalar or dict, but you passed a \"list\"">>)
    ELSE IF ~HasColumn(papers_data, K("publish_date"))
         THEN DataProcessError(<<"'publish_date'">>)
    ELSE IF ~HasColumn(papers_data, K("authors"))
         THEN DataProcessError(<<"'authors'">>)
    ELSE IF ~HasColumn(papers_data, K("methods_classified"))
         THEN DataProcessError(<<"'methods_classified'">>)
    ELSE IF ~HasColumn(papers_data, K("journal_name"))
         THEN DataProcessError(<<"'journal_name'">>)
    ELSE DataProcessSuccess(papers_data, analysis_type)

(***************************************************************************)
(* Bounds of the model and the inputs drawn within them.                   *)
(***************************************************************************)
\* the largest valid max_papers a request asks for
MaxPapers == 2
\* the longest methods_classified_distribution a completion writes
MaxDist == 2
\* the largest count in such a distribution
MaxCount == 2
\* the latest clock reading of datetime.now()
MaxTime == 1
\* the most pieces a method text or a date text is put together from
MaxPieces == 2
\* the most records in the papers_data of a data_process call
MaxRecords == 3

Absent == [t |-> "absent"]
\* a dict of the items whose value is not Absent
MakeObj(items) == JObj(SelectSeq(items, LAMBDA it : it.v.t # "absent"))

KeywordChoices ==
    {Absent, JStr(<<>>), JStr(<<SP>>), JStr(<<SP, "diabetes", SP, "RCT">>), Str("asthma"),
     JNum(7), JNull}
TextChoices == {Absent, JStr(<<>>), Str("x")}
LlmConfig(api_key, base_url, model_name) ==
    MakeObj(<<Item(K("api_key"), api_key), Item(K("base_url"), base_url),
              Item(K("model_name"), model_name)>>)
\* all three fields good, or one of them missing or empty
LlmChoices ==
    {Absent, JNull}
    \cup {LlmConfig(a, Str("x"), Str("x")) : a \in TextChoices}
    \cup {LlmConfig(Str("x"), b, Str("x")) : b \in TextChoices}
    \cup {LlmConfig(Str("x"), Str("x"), m) : m \in TextChoices}
MaxPapersChoices ==
    {Absent, JNum(0), JNum(-1), Str("ten"), JBool(TRUE), JNull}
    \cup {JNum(n) : n \in 1..MaxPapers}
AgentChoices == {Absent} \cup {MakeObj(<<Item(K("max_papers"), m)>>) : m \in MaxPapersChoices}
EmailChoices == {Absent, JStr(<<>>), Str("nobody"), JStr(<<"a", "@", "b.org">>), JNum(5)}
PubmedChoices == {Absent} \cup {MakeObj(<<Item(K("email"), e)>>) : e \in EmailChoices}

\* what request.get_json() can give
RequestBodies ==
    {[t |-> "invalid"], JNull, JObj(<<>>), JList(<<Str("x")>>)}
    \cup {MakeObj(<<Item(K("keywords"), kw), Item(K("llm_config"), llm),
                    Item(K("agent_config"), agent), Item(K("pubmed_config"), pubmed)>>) :
            kw \in KeywordChoices, llm \in LlmChoices,
            agent \in AgentChoices, pubmed \in PubmedChoices}

\* what Entrez gives for a search limited to max_papers
RealPaper(i) ==
    JObj(<<Item(K("title"), JStr(<<"Trial", NumeralOf(i)>>)),
           Item(K("publish_date"), Str("2023-05")),
           Item(K("journal_name"), Str("Lancet")),
           Item(K("methods_original"), Str("a prospective cohort")),
           Item(K("conclusion"), Str("not mentioned")),
           Item(K("authors"), JList(<<Str("Doe J")>>))>>)
SearchOutcomes(max_papers) ==
    {[kind |-> "ok", papers |-> [i \in 1..n |-> RealPaper(i)]] : n \in 0..max_papers}
    \cup {[kind |-> "raise", text |-> e] : e \in {<<"HTTP Error 429">>, <<>>}}

\* completions: a JSON body as it is, or inside a code fence
Plain(text) == text
Fenced(text) == <<FENCE, NL>> \o text \o <<NL, FENCE>>
FencedJson(text) == <<FENCE, JSONTAG, NL>> \o text \o <<NL, FENCE>>
Garbage == <<"Sorry,", SP, "here", SP, "is", SP, "{">>
InvokeRaises ==
    {Raise("Exception", <<"Connection error.">>), Raise("Exception", <<>>),
     Raise("JSONDecodeError", <<DIAG>>)}

LitPaper(method) ==
    JObj(<<Item(K("title"), Str("Trial")),
           Item(K("methods_classified"), Str(method)),
           Item(K("authors"), JList(<<Str("Doe J")>>))>>)
LitEnvelope(status, message, data) ==
    MakeObj(<<Item(K("status"), status), Item(K("message"), message), Item(K("data"), data)>>)
LitBodies ==
    {LitEnvelope(Str("success"), Str("found 2 papers"),
                 JList(<<LitPaper("RCT"), LitPaper("cohort")>>)),
     LitEnvelope(Str("success"), JStr(<<"json", SP, "result">>),
                 JList(<<LitPaper("meta-analysis")>>)),
     LitEnvelope(Str("warning"), Str("only 1 paper"), JList(<<LitPaper("RCT")>>)),
     LitEnvelope(Str("error"), Str("PubMed search failed"), JList(<<>>)),
     LitEnvelope(Str("error"), JStr(<<>>), JList(<<>>)),
     LitEnvelope(Str("error"), Absent, JList(<<>>)),
     LitEnvelope(Str("partial"), Str("stopped"), Absent),
     LitEnvelope(Absent, Str("found 1 paper"), JList(<<LitPaper("RCT")>>)),
     JList(<<>>)}
LitTexts ==
    {Plain(Dumps(b)) : b \in LitBodies}
    \cup {Fenced(Dumps(b)) : b \in LitBodies}
    \cup {FencedJson(Dumps(b)) : b \in LitBodies}
    \cup {Garbage, FencedJson(Garbage), <<>>}
LitCompletions == {Output(text) : text \in LitTexts} \cup InvokeRaises

\* The completion function sees what pubmed_search returned.  When the tool
\* returned its mock data it can pass them on: the records, each with the
\* methods_classified the prompt asks for, in an envelope of status success.
Relayed(paper) == JObj(Append(paper.ps, Item(K("methods_classified"), Str("RCT"))))
RelayCompletions(tool) ==
    IF tool # Unset /\ Get(tool, K("status")) = Str("error")
    THEN {Output(Dumps(LitEnvelope(
              Str("success"), Str("found 10 papers"),
              JList([i \in 1..Len(Get(tool, K("data")).xs) |->
                        Relayed(Get(tool, K("data")).xs[i])]))))}
    ELSE {}

Categories == {"RCT", "cohort"}
DistItems == {Item(K(c), JNum(n)) : c \in Categories, n \in 1..MaxCount}
RECURSIVE SeqsUpTo(_, _)
SeqsUpTo(S, n) ==
    IF n = 0 THEN {<<>>}
    ELSE LET shorter == SeqsUpTo(S, n - 1)
         IN  shorter \cup {Append(q, x) : q \in {r \in shorter : Len(r) = n - 1}, x \in S}
Distributions == {JObj(ps) : ps \in SeqsUpTo(DistItems, MaxDist)}

Statistic(total, dist) ==
    MakeObj(<<Item(K("total_papers"), total),
              Item(K("methods_classified_distribution"), dist)>>)
DataEnvelope(status, message, statistic, plot_paths) ==
    MakeObj(<<Item(K("status"), status), Item(K("message"), message),
              Item(K("statistic"), statistic), Item(K("plot_paths"), plot_paths)>>)
Plots == JList(<<Str("./plots/methods_classified_distribution.png")>>)
DataBodies ==
    {DataEnvelope(Str("success"), Str("processed"), Statistic(JNum(2), d), Plots) :
        d \in Distributions \cup {Absent, JNull, JList(<<>>)}}
    \cup {DataEnvelope(Str("success"), Str("processed"), st, pl) :
            st \in {Absent, JObj(<<>>), JList(<<>>)}, pl \in {Plots, Absent, JNull}}
    \cup {DataEnvelope(Str("warning"), Str("1 chart skipped"),
                       Statistic(JNum(2), JObj(<<Item(K("RCT"), JNum(2))>>)), Plots),
          DataEnvelope(Str("error"), Str("input data is empty"), JObj(<<>>), JList(<<>>)),
          DataEnvelope(Str("error"), JStr(<<>>), JObj(<<>>), JList(<<>>)),
          DataEnvelope(Str("error"), Absent, Absent, Absent),
          DataEnvelope(Absent, Str("processed"), JObj(<<>>), JList(<<>>)),
          JList(<<>>)}
DataFencedBodies ==
    {DataEnvelope(Str("success"), JStr(<<"json", SP, "processed">>),
                  Statistic(JNum(2), JObj(<<Item(K("RCT"), JNum(1))>>)), Plots),
     DataEnvelope(Str("error"), Str("input data is empty"), JObj(<<>>), JList(<<>>))}
DataCompletions ==
    {Output(Dumps(b)) : b \in DataBodies \cup DataFencedBodies}
    \cup {Output(FencedJson(Dumps(b))) : b \in DataFencedBodies}
    \cup {Output(Garbage), Output(FencedJson(Garbage))}
    \cup InvokeRaises

ReportCompletions ==
    {Output(<<"# Report">>), Raise("Exception", <<"Connection error.">>)}

(***************************************************************************)
(* The state machine: one /research request at a time.                     *)
(*   pc        where the handler stands: "idle", then inside chain.run     *)
(*             before the call of a stage ("lit", "data", "report"), then  *)
(*             "done" with the response sent                               *)
(*   calls     the stages chain.run has called, in order                   *)
(*   raised    the callees an exception has escaped from                   *)
(*   completion   what the latest invoke of a completion did               *)
(*   searchOutcome, toolResult   what Entrez did and what pubmed_search    *)
(*             returned to the agent, while the literature agent runs      *)
(***************************************************************************)
Init ==
    /\ pc = "idle"
    /\ request = Unset
    /\ keywords = <<>>
    /\ config = Unset
    /\ chainConstructed = FALSE
    /\ calls = <<>>
    /\ raised = {}
    /\ searchOutcome = Unset
    /\ toolResult = Unset
    /\ completion = Unset
    /\ lit_result = Unset
    /\ data_result = Unset
    /\ report_result = Unset
    /\ response = Unset
    /\ call = Unset
    /\ ret = Unset
    /\ clock = 0
    /\ reports = {}

\* research(), lines 17-102: the request is validated; a valid one builds
\* the config and constructs the chain (initOk: the constructors, which
\* create the output directories, do not raise) and enters chain.run
Research(body, initOk) ==
    /\ pc = "idle"
    /\ LET v == Validate(body)
       IN  /\ request' = body
           /\ IF v.resp # Unset
              THEN /\ response' = v.resp
                   /\ pc' = "done"
                   /\ UNCHANGED <<keywords, config, chainConstructed>>
              ELSE /\ keywords' = v.kw
                   /\ config' = v.config
                   /\ IF initOk
                      THEN /\ chainConstructed' = TRUE
                           /\ pc' = "lit"
                           /\ response' = Unset
                      ELSE /\ chainConstructed' = FALSE
                           /\ pc' = "done"
                           /\ response' = ServerFailure(<<"OSError:", "makedirs">>)
    /\ UNCHANGED <<calls, raised, searchOutcome, toolResult, completion,
                   lit_result, data_result, report_result>>
    /\ UNCHANGED unitVars

\* self.max_papers of the search tool (pubmed_tool.py 28)
ToolMaxPapers ==
    IntOf(Get(Get(Get(config, K("agent")), K("literature")), K("max_papers")))

\* the literature agent calls its tool pubmed_search
PubMedSearch ==
    /\ pc = "lit"
    /\ toolResult = Unset
    /\ \E outcome \in SearchOutcomes(ToolMaxPapers) :
           /\ searchOutcome' = outcome
           /\ toolResult' = PubMedRun(keywords, ToolMaxPapers, outcome)
    /\ UNCHANGED <<pc, request, keywords, config, chainConstructed, calls, raised,
                   completion, lit_result, data_result, report_result, response>>
    /\ UNCHANGED unitVars

\* router_chain.py 22-29: literature_agent.run returns (or raises)
LiteratureStage(out) ==
    /\ pc = "lit"
    /\ lit_result' = LiteratureAgentRun(out).value
    /\ raised' = IF lit_result' = Unset THEN raised \cup {"literature_agent"} ELSE raised
    /\ response' = AfterLiterature(LiteratureAgentRun(out))
    /\ pc' = IF response' = Unset THEN "data" ELSE "done"
    /\ calls' = Append(calls, "literature_agent")
    /\ completion' = out
    /\ searchOutcome' = Unset
    /\ toolResult' = Unset
    /\ UNCHANGED <<request, keywords, config, chainConstructed, data_result, report_result>>
    /\ UNCHANGED unitVars

\* the same, for a completion that passes on what pubmed_search returned
LiteratureRelay ==
    /\ pc = "lit"
    /\ toolResult # Unset
    /\ \E out \in RelayCompletions(toolResult) : LiteratureStage(out)

\* router_chain.py 33-43: data_agent.run(lit_result) returns
DataStage(out) ==
    /\ pc = "data"
    /\ data_result' = DataAgentRun(lit_result, out).value
    /\ raised' = IF data_result' = Unset THEN raised \cup {"data_agent"} ELSE raised
    /\ response' = AfterData(lit_result, DataAgentRun(lit_result, out))
    /\ pc' = IF response' = Unset THEN "report" ELSE "done"
    /\ calls' = Append(calls, "data_agent")
    /\ completion' = out
    /\ UNCHANGED <<request, keywords, config, chainConstructed, searchOutcome,
                   toolResult, lit_result, report_result>>
    /\ UNCHANGED unitVars

\* router_chain.py 47-77: report_agent.run returns and the result is built
ReportStage(out, timestamp, writeOk) ==
    /\ pc = "report"
    /\ report_result' =
           ReportAgentRun(keywords, lit_result, data_result, out, timestamp, writeOk).value
    /\ UNCHANGED raised
    /\ response' = FinalResult(keywords, lit_result, data_result, report_result')
    /\ pc' = "done"
    /\ calls' = Append(calls, "report_agent")
    /\ completion' = out
    /\ UNCHANGED <<request, keywords, config, chainConstructed, searchOutcome,
                   toolResult, lit_result, data_result>>
    /\ UNCHANGED unitVars

\* the response is sent (app.py 106); the server waits for the next request
Finish ==
    /\ pc = "done"
    /\ pc' = "idle"
    /\ request' = Unset
    /\ keywords' = <<>>
    /\ config' = Unset
    /\ chainConstructed' = FALSE
    /\ calls' = <<>>
    /\ raised' = {}
    /\ completion' = Unset
    /\ lit_result' = Unset
    /\ data_result' = Unset
    /\ report_result' = Unset
    /\ response' = Unset
    /\ UNCHANGED <<searchOutcome, toolResult>>
    /\ UNCHANGED unitVars

Next ==
    \/ \E body \in RequestBodies, initOk \in BOOLEAN : Research(body, initOk)
    \/ PubMedSearch
    \/ \E out \in LitCompletions : LiteratureStage(out)
    \/ LiteratureRelay
    \/ \E out \in DataCompletions : DataStage(out)
    \/ \E out \in ReportCompletions, timestamp \in 0..MaxTime, writeOk \in BOOLEAN :
           ReportStage(out, timestamp, writeOk)
    \/ Finish

Spec == Init /\ [][Next]_vars

(***************************************************************************)
(* ReportAgent.run called on its own, again and again as time passes.      *)
(*   call      the latest call: its arguments and the time of datetime.now() *)
(*   ret       what the call returned                                      *)
(*   clock     the time, in ticks of which TicksPerSecond make a second    *)
(*   reports   the successful runs so far: keywords, time and report path  *)
(***************************************************************************)
\* the resolution of the clock against the seconds of "%Y%m%d_%H%M%S"
TicksPerSecond == 2
\* datetime.now().strftime("%Y%m%d_%H%M%S") (96) keeps the whole seconds
Timestamp(time) == time \div TicksPerSecond
LastTick == (MaxTime + 1) * TicksPerSecond - 1

ReportKeywords == {<<"asthma">>, <<"diabetes", SP, "RCT">>}
\* a structured record, JSON text of an object (plain or fenced), JSON text
\* of a list, text that is not JSON, and None
ReportInputs ==
    {JObj(<<Item(K("status"), Str("success")),
            Item(K("statistic"), JObj(<<Item(K("total_papers"), JNum(2))>>)),
            Item(K("plot_paths"), Plots)>>),
     JStr(Dumps(JObj(<<Item(K("status"), Str("success"))>>))),
     JStr(FencedJson(Dumps(JObj(<<Item(K("status"), Str("success"))>>)))),
     JStr(Dumps(JList(<<>>))),
     JStr(Garbage),
     JNull}

ReportInit == Init

\* run(keywords, literature_data, data_process_data) (80-125), called later
\* ticks after the call before it
ReportRun(kw, literature_data, data_process_data, out, writeOk, later) ==
    /\ clock + later <= LastTick
    /\ clock' = clock + later
    /\ call' = [op |-> "ReportAgent.run", keywords |-> kw,
                literature_data |-> literature_data,
                data_process_data |-> data_process_data,
                out |-> out, writeOk |-> writeOk, time |-> clock']
    /\ ret' = ReportAgentRun(kw, literature_data, data_process_data, out,
                             Timestamp(clock'), writeOk)
    /\ reports' =
           IF Get(ret'.value, K("status")) = Str("success")
           THEN reports \cup {[keywords |-> kw, time |-> clock',
                               path |-> Get(ret'.value, K("report_path")).s]}
           ELSE reports
    /\ UNCHANGED chainVars

ReportNext ==
    \E kw \in ReportKeywords, literature_data \in ReportInputs,
       data_process_data \in ReportInputs, out \in ReportCompletions,
       writeOk \in BOOLEAN, later \in 1..TicksPerSecond :
        ReportRun(kw, literature_data, data_process_data, out, writeOk, later)

ReportSpec == ReportInit /\ [][ReportNext]_vars

(***************************************************************************)
(* What the claims speak of.                                               *)
(***************************************************************************)
Done == pc = "done"
StageOrder == <<"literature_agent", "data_agent", "report_agent">>
Called(stage) == stage \in Range(calls)

\* v is a dict whose status is one of the given words
HasStatus(v, words) ==
    /\ IsDict(v)
    /\ HasKey(v, K("status"))
    /\ \E w \in words : Get(v, K("status")) = Str(w)

\* v is an envelope of status error that carries a message
IsErrorEnvelope(v) == HasStatus(v, {"error"}) /\ HasKey(v, K("message"))

\* a populated message: a non-empty string
Populated(m) == m.t = "str" /\ Len(m.s) > 0

\* the ResultEnvelope of the data model
IsResultEnvelope(v) ==
    /\ HasStatus(v, {"success", "warning", "error"})
    /\ HasKey(v, K("message"))
    /\ Populated(Get(v, K("message")))

\* the stage whose completion the variable completion holds, and its result
LastStage == calls[Len(calls)]
LastResult ==
    CASE LastStage = "literature_agent" -> lit_result
      [] LastStage = "data_agent"       -> data_result
      [] LastStage = "report_agent"     -> report_result

\* C1 as claimed -- the stages are called in the order literature, data,
\* report, each at most once, and when the run is over the data stage has
\* been called exactly if the literature stage returned success or warning,
\* and the report stage exactly if the data stage returned success or warning.
C1_StagesFollowStatus ==
    /\ Len(calls) <= 3
    /\ \A i \in 1..Len(calls) : calls[i] = StageOrder[i]
    /\ (Done /\ Called("literature_agent"))
          => (Called("data_agent") <=> HasStatus(lit_result, {"success", "warning"}))
    /\ (Done /\ Called("data_agent"))
          => (Called("report_agent") <=> HasStatus(data_result, {"success", "warning"}))

\* the envelope of the data stage with the payload its prompt asks for: a
\* statistic dict, whose distribution (if any) maps categories to counts, and
\* a list of plot paths
IsDataEnvelope(v) ==
    /\ IsResultEnvelope(v)
    /\ HasKey(v, K("statistic")) /\ IsDict(Get(v, K("statistic")))
    /\ HasKey(v, K("plot_paths")) /\ Get(v, K("plot_paths")).t = "list"
    /\ LET dist == GetOr(Get(v, K("statistic")), K("methods_classified_distribution"),
                         JObj(<<>>))
       IN  IsDict(dist) /\ \A j \in 1..Len(dist.ps) : dist.ps[j].v.t = "num"

\* C2 as claimed -- when a stage has returned an envelope of status error (the
\* data stage, if the report stage is the one, having returned the envelope of
\* its contract), the run's result is failed, its stage names that stage and
\* its message is the message of that stage's envelope.
C2_FailureNamesStageAndMessage ==
    \A i \in 1..Len(calls) :
        LET env == <<lit_result, data_result, report_result>>[i]
        IN  (Done /\ IsErrorEnvelope(env) /\ (i = 3 => IsDataEnvelope(data_result)))
                => /\ Get(response, K("chain_status")) = Str("failed")
                   /\ Get(response, K("stage")) = Str(StageOrder[i])
                   /\ Get(response, K("message")) = Get(env, K("message"))

\* C3 as claimed -- when the run halts because a stage returned an envelope of
\* status error, results holds the envelope of every stage called so far, the
\* failing stage's included.
C3_ResultsCarryEnvelopes ==
    (Done /\ calls # <<>> /\ IsErrorEnvelope(LastResult))
        => \A i \in 1..Len(calls) :
               LET name == <<"literature_result", "data_result", "report_result">>[i]
                   env  == <<lit_result, data_result, report_result>>[i]
                   results == Get(response, K("results"))
               IN  HasKey(results, K(name)) /\ Get(results, K(name)) = env

\* C4 as claimed -- chain.run, whatever the stages do, raises nothing and
\* returns a result whose chain_status is success or failed and whose message
\* is non-empty.
C4_RunAlwaysAnswers ==
    (Done /\ chainConstructed)
        => /\ "chain" \notin raised
           /\ Get(response, K("chain_status")) \in {Str("success"), Str("failed")}
           /\ Populated(Get(response, K("message")))

\* C5 as claimed -- no stage's run raises past its boundary, and what a stage
\* returns is a ResultEnvelope: a dict with status success, warning or error
\* and a populated message.
C5_StagesReturnEnvelopes ==
    /\ raised = {}
    /\ \A i \in 1..Len(calls) :
           IsResultEnvelope(<<lit_result, data_result, report_result>>[i])

\* a completion that is JSON neither as it stands nor after the fence clean-up
NotJson(text) == ~Loads(text).ok /\ ~Loads(Unfence(text)).ok

\* C6 as claimed -- in the literature and in the data stage alike, a completion
\* that is not valid JSON gives status error with the raw completion text and
\* the decoder's diagnostic in the message.
C6_ParseFailureKeepsRawText ==
    (/\ calls # <<>>
     /\ LastStage \in {"literature_agent", "data_agent"}
     /\ completion.kind = "output"
     /\ NotJson(completion.text))
        => /\ HasStatus(LastResult, {"error"})
           /\ Contains(Get(LastResult, K("message")).s, completion.text)
           /\ Contains(Get(LastResult, K("message")).s, <<DIAG>>)

\* the text between the fences of a fenced completion: after an opening
\* fence, an optional json tag and a newline, up to a newline and the
\* closing fence
IsFenced(text) ==
    /\ Len(text) >= 4
    /\ text[1] = FENCE
    /\ text[2] = NL \/ (text[2] = JSONTAG /\ text[3] = NL /\ Len(text) >= 5)
    /\ text[Len(text) - 1] = NL
    /\ text[Len(text)] = FENCE
FenceInner(text) ==
    SubSeq(text, IF text[2] = NL THEN 3 ELSE 4, Len(text) - 2)

\* C7 as claimed -- a completion that is a JSON object text J inside a code
\* fence gives the stage the same structure as J unwrapped: json.loads(J).
C7_FencedEqualsUnwrapped ==
    (/\ calls # <<>>
     /\ LastStage \in {"literature_agent", "data_agent"}
     /\ completion.kind = "output"
     /\ IsFenced(completion.text)
     /\ Loads(FenceInner(completion.text)).ok
     /\ IsDict(Loads(FenceInner(completion.text)).val))
        => LastResult = Loads(FenceInner(completion.text)).val

\* C8 -- when the Entrez search or fetch raises, pubmed_search returns status
\* error with the exception text in its message and the placeholder of ten
\* records with the fixed field values, whatever the keywords and whatever
\* max_papers the tool was configured with.
C8_SearchFailureGivesPlaceholder ==
    (toolResult # Unset /\ searchOutcome.kind = "raise")
        => /\ Get(toolResult, K("status")) = Str("error")
           /\ Contains(Get(toolResult, K("message")).s, searchOutcome.text)
           /\ Len(Get(toolResult, K("data")).xs) = PlaceholderCount
           /\ \A i \in 1..PlaceholderCount :
                  Get(toolResult, K("data")).xs[i] = PlaceholderPaper(i - 1)

\* C8's case: the search has raised with a text, for a tool configured with
\* a max_papers above 1, and the tool has returned
C8_SearchRaised ==
    /\ toolResult # Unset
    /\ searchOutcome.kind = "raise"
    /\ searchOutcome.text # <<>>
    /\ ToolMaxPapers > 1
    /\ Len(keywords) > 1

\* a field of a section of the request body, Absent where the section or the
\* field is not there
Field(body, section, key) ==
    IF /\ HasKey(body, K(section))
       /\ IsDict(Get(body, K(section)))
       /\ HasKey(Get(body, K(section)), K(key))
    THEN Get(Get(body, K(section)), K(key))
    ELSE Absent
MissingOrEmpty(v) == v.t \in {"absent", "null"} \/ v = JStr(<<>>)

\* the request body, a non-empty JSON object, violates the input contract
ContractViolated(body) ==
    \/ ~HasKey(body, K("keywords"))
    \/ Get(body, K("keywords")).t # "str"
    \/ Get(body, K("keywords")) = JStr(<<>>)
    \/ \E key \in {"api_key", "base_url", "model_name"} :
           MissingOrEmpty(Field(body, "llm_config", key))
    \/ LET max_papers == Field(body, "agent_config", "max_papers")
       IN  ~IsInt(max_papers) \/ IntOf(max_papers) < 1
    \/ LET email == Field(body, "pubmed_config", "email")
       IN  MissingOrEmpty(email) \/ (email.t = "str" /\ "@" \notin Range(email.s))

\* C9 as claimed -- a request whose body violates the input contract is
\* answered with chain_status failed and stage params, and no chain is
\* constructed or run for it.
C9_ViolationsAnsweredAsParams ==
    (Done /\ IsDict(request) /\ Truthy(request) /\ ContractViolated(request))
        => /\ Get(response, K("chain_status")) = Str("failed")
           /\ Get(response, K("stage")) = Str("params")
           /\ ~chainConstructed
           /\ calls = <<>>

\* the distribution the summary is computed from, and its entry i being the
\* first of the entries with the greatest count
DistributionOf(data) ==
    GetOr(Get(data, K("statistic")), K("methods_classified_distribution"), JObj(<<>>))
IsFirstMaximum(ps, i) ==
    /\ \A j \in 1..Len(ps) : ps[j].v.n <= ps[i].v.n
    /\ \A j \in 1..(i - 1) : ps[j].v.n < ps[i].v.n
RunSucceeded == Done /\ calls # <<>> /\ Get(response, K("chain_status")) = Str("success")

\* C10 -- on a successful run summary.main_research_method is the key of the
\* first entry, in insertion order, with the greatest count of
\* data_result.statistic.methods_classified_distribution, and it is "unknown"
\* when that distribution is empty or absent.
C10_MainMethodIsFirstMaximum ==
    RunSucceeded
        => LET dist == DistributionOf(data_result)
               main == Get(Get(response, K("summary")), K("main_research_method"))
           IN  IF PyLen(dist) = 0 THEN main = Str("unknown")
               ELSE \E i \in 1..Len(dist.ps) :
                        IsFirstMaximum(dist.ps, i) /\ main = JStr(dist.ps[i].k)

\* C10's case: a successful run over a distribution of two categories with
\* the same count, whose first category is the main method
C10_TieResolved ==
    /\ RunSucceeded
    /\ LET dist == DistributionOf(data_result)
       IN  /\ IsDict(dist)
           /\ Len(dist.ps) = 2
           /\ dist.ps[1].v.n = dist.ps[2].v.n
           /\ Get(Get(response, K("summary")), K("main_research_method"))
                  = JStr(dist.ps[1].k)

(***************************************************************************)
(* The classifier, the year parser and the data processing tool, each      *)
(* called on its own: call holds the operation and its arguments, ret      *)
(* what it returned.                                                       *)
(***************************************************************************)
RECURSIVE Flatten(_)
Flatten(pieces) == IF pieces = <<>> THEN <<>> ELSE Head(pieces) \o Flatten(Tail(pieces))
TextsOf(pieces) == {JStr(Flatten(q)) : q \in SeqsUpTo(pieces, MaxPieces)}

MethodPieces ==
    {<<"R", "C", "T">>, <<"r", "c", "t">>, <<"a", "r", "c", "t", "i", "c">>,
     <<"C", "o", "h", "o", "r", "t">>, <<"<dui:team>", "<lie>">>,
     <<"c", "a", "s", "e", "-", "C", "O", "N", "T", "R", "O", "L">>,
     <<"<heng>", "<duan>", "<mian>">>,
     <<"C", "a", "s", "e", " ", "r", "e", "p", "o", "r", "t">>,
     <<"<bing>", "<li>">>, <<" ", "o", "f", " ">>}
MethodTexts == TextsOf(MethodPieces) \cup {JNull}

DatePieces ==
    {<<"2", "0", "2", "3">>, <<"-", "0", "5">>, <<"-">>, <<"2">>, <<"x">>, <<" ">>}
DateValues ==
    TextsOf(DatePieces) \cup {UnknownYear, JNull, JNum(2023), JNum(0), JList(<<Str("-")>>)}

\* records as the literature stage passes them on, whole or with fields missing
Paper(publish_date, journal_name, methods_classified, authors) ==
    MakeObj(<<Item(K("title"), Str("Trial")),
              Item(K("publish_date"), publish_date),
              Item(K("journal_name"), journal_name),
              Item(K("methods_original"), Str("a trial")),
              Item(K("methods_classified"), methods_classified),
              Item(K("conclusion"), Str("it works")),
              Item(K("authors"), authors)>>)
PaperChoices ==
    {Paper(JStr(<<"2", "0", "2", "3", "-", "0", "5">>), Str("Lancet"), Str("RCT"),
           JList(<<Str("Doe J"), Str("Roe R")>>)),
     Paper(JStr(<<"2", "0", "2", "3">>), Str("BMJ"), Str("cohort"), JList(<<Str("Doe J")>>)),
     Paper(JStr(<<"2", "0", "2", "3">>), Str("BMJ"), Absent, JList(<<>>)),
     Paper(JStr(<<"2", "0", "2", "3", "-", "0", "5">>), Str("Lancet"), Str("RCT"), Absent),
     Paper(Absent, Absent, Absent, Absent)}
PapersData == SeqsUpTo(PaperChoices, MaxRecords)
AnalysisTypes == {"all", "stat"}

ToolInit == Init

CallClassify(method_text) ==
    /\ call = Unset
    /\ call' = [op |-> "_classify_research_method", method_text |-> method_text]
    /\ ret' = ClassifyResearchMethod(method_text)
    /\ UNCHANGED <<chainVars, clock, reports>>

CallParsePublishYear(date_str) ==
    /\ call = Unset
    /\ call' = [op |-> "_parse_publish_year", date_str |-> date_str]
    /\ ret' = Returned(ParsePublishYear(date_str))
    /\ UNCHANGED <<chainVars, clock, reports>>

CallDataProcess(papers_data, analysis_type) ==
    /\ call = Unset
    /\ call' = [op |-> "_run", papers_data |-> papers_data,
                analysis_type |-> analysis_type]
    /\ ret' = Returned(DataProcessRun(papers_data, analysis_type))
    /\ UNCHANGED <<chainVars, clock, reports>>

\* the caller has the result; the next call can be made
CallReturns ==
    /\ call # Unset
    /\ call' = Unset
    /\ ret' = Unset
    /\ UNCHANGED <<chainVars, clock, reports>>

ToolNext ==
    \/ \E method_text \in MethodTexts : CallClassify(method_text)
    \/ \E date_str \in DateValues : CallParsePublishYear(date_str)
    \/ \E papers_data \in PapersData, analysis_type \in AnalysisTypes :
           CallDataProcess(papers_data, analysis_type)
    \/ CallReturns

ToolSpec == ToolInit /\ [][ToolNext]_vars

\* the PaperRecords of an envelope
PapersOf(env) ==
    IF HasKey(env, K("data")) /\ Get(env, K("data")).t = "list"
    THEN Range(Get(env, K("data")).xs)
    ELSE {}

\* C12 as claimed -- in every envelope of status success or warning that
\* LiteratureAgent.run returns, each PaperRecord has a methods_classified
\* that is one of RESEARCH_METHOD_TYPES.
C12_MethodsClassifiedInClosedSet ==
    (Called("literature_agent") /\ HasStatus(lit_result, {"success", "warning"}))
        => \A paper \in PapersOf(lit_result) :
               /\ IsDict(paper)
               /\ HasKey(paper, K("methods_classified"))
               /\ \E c \in RESEARCH_METHOD_TYPES :
                      Get(paper, K("methods_classified")) = Str(c)

\* a record that pubmed_search fabricated: it has the title of a mock paper
IsFabricated(paper) ==
    /\ IsDict(paper)
    /\ HasKey(paper, K("title"))
    /\ \E i \in 1..PlaceholderCount :
           Get(paper, K("title")) = Get(PlaceholderPaper(i - 1), K("title"))

\* C14 as claimed -- DataAgent.run never receives an envelope whose data
\* holds records that pubmed_search fabricated.
C14_PlaceholderNeverReachesDataStage ==
    Called("data_agent") => \A paper \in PapersOf(lit_result) : ~IsFabricated(paper)

\* the latest call is a call of op
Calling(op) == call # Unset /\ call.op = op

\* the categories in the order of their priority, and their triggers
CategoryOrder == <<"RCT", "cohort", "case-control", "cross-sectional", "case report">>
TriggersOf(category) ==
    CASE category = "RCT"             -> Range(RctKeywords)
      [] category = "cohort"          -> Range(CohortKeywords)
      [] category = "case-control"    -> Range(CaseControlKeywords)
      [] category = "cross-sectional" -> Range(CrossSectionalKeywords)
      [] category = "case report"     -> Range(CaseReportKeywords)
\* the text has the trigger somewhere, in whatever case
HasIgnoringCase(text, trigger) ==
    \E k \in 0..(Len(text) - Len(trigger)) :
        \A j \in 1..Len(trigger) : LowerChar(text[k + j]) = LowerChar(trigger[j])
Mentions(text, category) ==
    \E trigger \in TriggersOf(category) : HasIgnoringCase(text, trigger)

\* C13 -- _classify_research_method gives a text the first category, in the
\* order RCT, cohort, case-control, cross-sectional, case report, one of
\* whose triggers the text contains in whatever case, and "other" when it
\* contains none; the result is one of RESEARCH_METHOD_TYPES.
C13_ClassifierFollowsPriority ==
    (Calling("_classify_research_method") /\ call.method_text.t = "str")
        => /\ ~ret.raised
           /\ ret.value \in RESEARCH_METHOD_TYPES
           /\ \A i \in 1..Len(CategoryOrder) :
                  (/\ Mentions(call.method_text.s, CategoryOrder[i])
                   /\ \A j \in 1..(i - 1) : ~Mentions(call.method_text.s, CategoryOrder[j]))
                      => ret.value = CategoryOrder[i]
           /\ (\A i \in 1..Len(CategoryOrder) : ~Mentions(call.method_text.s, CategoryOrder[i]))
                  => ret.value = "other"

\* C13's case: a text with an RCT trigger in upper case and a cohort trigger
\* as well has been classified RCT
C13_RctBeforeCohort ==
    /\ Calling("_classify_research_method")
    /\ call.method_text.t = "str"
    /\ Contains(call.method_text.s, <<"R", "C", "T">>)
    /\ Mentions(call.method_text.s, "cohort")
    /\ ret.value = "RCT"

\* C16 as claimed -- on papers_data whose series are empty (no records, or a
\* field publish_date, methods_classified or authors that no record has)
\* DataProcessTool._run does not return status error.
C16_EmptySeriesSkipped ==
    (/\ Calling("_run")
     /\ \/ call.papers_data = <<>>
        \/ \E field \in {"publish_date", "methods_classified", "authors"} :
               ~HasColumn(call.papers_data, K(field)))
        => ~HasStatus(ret.value, {"error"})

\* C17 -- _parse_publish_year never raises; a string with a "-" gives the
\* part before its first "-", a string of exactly 4 digits gives itself, and
\* every other value gives the unknown sentinel.
C17_PublishYearParsed ==
    Calling("_parse_publish_year")
        => /\ ~ret.raised
           /\ IF call.date_str.t = "str" /\ "-" \in Range(call.date_str.s)
              THEN \E k \in 1..Len(call.date_str.s) :
                       /\ call.date_str.s[k] = "-"
                       /\ \A j \in 1..(k - 1) : call.date_str.s[j] # "-"
                       /\ ret.value = JStr(SubSeq(call.date_str.s, 1, k - 1))
              ELSE IF /\ call.date_str.t = "str"
                      /\ Len(call.date_str.s) = 4
                      /\ \A j \in 1..4 : call.date_str.s[j] \in Range(Numerals)
                   THEN ret.value = call.date_str
                   ELSE ret.value = UnknownYear

\* C17's case: "2023-05" has been parsed to "2023"
C17_YearOfYearMonth ==
    /\ Calling("_parse_publish_year")
    /\ call.date_str = JStr(<<"2", "0", "2", "3", "-", "0", "5">>)
    /\ ret.value = JStr(<<"2", "0", "2", "3">>)

\* a PaperRecord with all its fields
IsPaperRecord(paper) ==
    \A i \in 1..Len(FillValues) : HasKey(paper, FillValues[i].k)
\* the number of records whose field has the value
CountOf(papers_data, field, value) ==
    Cardinality({i \in 1..Len(papers_data) : Cell(papers_data[i], K(field)) = value})
RECURSIVE SumOfCounts(_, _)
SumOfCounts(dist, i) ==
    IF i > Len(dist.ps) THEN 0 ELSE dist.ps[i].v.n + SumOfCounts(dist, i + 1)

\* C18 as claimed, with its example of three PaperRecords -- on a non-empty
\* collection of PaperRecords DataProcessTool._run succeeds with total_papers
\* the number of records, methods_classified_distribution the number of
\* records of each category, and the counts of that distribution and of
\* publish_year_distribution each summing to total_papers.
C18_StatisticsCountRecords ==
    (/\ Calling("_run")
     /\ call.papers_data # <<>>
     /\ \A i \in 1..Len(call.papers_data) : IsPaperRecord(call.papers_data[i]))
        => /\ HasStatus(ret.value, {"success"})
           /\ Get(Get(ret.value, K("statistic")), K("total_papers"))
                  = JNum(Len(call.papers_data))
           /\ \A c \in RESEARCH_METHOD_TYPES :
                  CountOf(call.papers_data, "methods_classified", Str(c)) > 0
                      => Get(Get(Get(ret.value, K("statistic")),
                                 K("methods_classified_distribution")), K(c))
                             = JNum(CountOf(call.papers_data, "methods_classified", Str(c)))
           /\ SumOfCounts(Get(Get(ret.value, K("statistic")),
                              K("methods_classified_distribution")), 1)
                  = Len(call.papers_data)
           /\ SumOfCounts(Get(Get(ret.value, K("statistic")),
                              K("publish_year_distribution")), 1)
                  = Len(call.papers_data)

\* C11 as claimed -- two successful runs of ReportAgent.run with the same
\* keywords at different times persist their reports under different paths.
C11_ReportPathsNeverCollide ==
    \A a \in reports : \A b \in reports :
        (a.keywords = b.keywords /\ a.time # b.time) => a.path # b.path

\* text or a value that _parse_input_data cannot turn into a dict
Unusable(data) ==
    \/ data.t \notin {"str", "obj"}
    \/ /\ data.t = "str"
       /\ ~(Loads(Unfence(data.s)).ok /\ IsDict(Loads(Unfence(data.s)).val))

\* C15 as claimed -- when literature_data or data_process_data is not a usable
\* structured record, and the completion and the file write succeed, run
\* generates and persists the report: it returns status success, not error.
C15_UnusableInputDegrades ==
    (/\ call # Unset
     /\ call.op = "ReportAgent.run"
     /\ call.out.kind = "output" /\ call.writeOk
     /\ Unusable(call.literature_data) \/ Unusable(call.data_process_data))
        => /\ ~ret.raised
           /\ Get(ret.value, K("status")) = Str("success")

====
